---- MODULE Spec2Model ----
(***************************************************************************)
(* Model of src/view/droppable/connected-droppable.js: the selector that   *)
(* derives a Droppable's MapProps from the drag State, with the two        *)
(* memoizeOne caches every selector instance owns.                         *)
(*                                                                         *)
(* JavaScript values are modelled as follows.                              *)
(*  - A nullable value (?T) is a sequence: <<>> is null/undefined and      *)
(*    <<v>> is the value v.                                                *)
(*  - An object whose identity matters carries a field ref; two objects    *)
(*    are the same object (===) iff their refs are equal.  The module      *)
(*    constants idle and idleWithoutAnimation are objects 1 and 2; the     *)
(*    n-th object literal evaluated after them gets ref n.                 *)
(***************************************************************************)
EXTENDS Integers, Sequences, FiniteSets, TLC

VARIABLES
    state,   \* the State of the store, as handed to every selector call
    ownProps,\* ownProps[i]: the droppableId and type of the Droppable that owns instance i
    cache,   \* cache[i]: the two memoizeOne slots of selector instance i
    heap,    \* number of MapProps objects created so far (idle, idleWithoutAnimation, ...)
    ret,     \* the latest selector call, kept while the store holds the State it
             \* was given or one structurally identical to it
    shown,   \* shown[i]: the record instance i returned for the State the store
             \* holds now (null when it has not been called since, or threw)
    stage    \* progress of the store through DRAGGING -> DROP_ANIMATING -> IDLE(completed)

vars == <<state, ownProps, cache, heap, ret, shown, stage>>

----------------------------------------------------------------------------
(* Bounds *)

\* MapProps objects that may exist, the two module constants included
MaxHeap == 5

\* selector instances: one per mounted Droppable
Instances == {1}

----------------------------------------------------------------------------
(* Nullable values *)

None == <<>>
Some(v) == <<v>>
IsSome(o) == Len(o) = 1
Get(o) == o[1]

----------------------------------------------------------------------------
(* Input domains *)

DraggableIds == {"d1", "d2"}
\* the empty string is a string, hence a DroppableId
DroppableIds == {"", "A", "B"}
TypeIds == {"DEFAULT", "OTHER"}

\* Placeholder objects: P1 and P2 are two objects with the same contents
Placeholders ==
    { [ref |-> "P1", client |-> "g1"],
      [ref |-> "P2", client |-> "g1"],
      [ref |-> "P3", client |-> "g2"] }

\* the home list of every draggable, and the type of that list
HomeOf(d) == IF d = "d1" THEN "A" ELSE "B"
TypeOfHome(d) == "DEFAULT"
\* the placeholder objects a catalog may hold for a draggable
PlaceholdersOf(d) ==
    IF d = "d1" THEN {p \in Placeholders : p.client = "g1"}
                ELSE {p \in Placeholders : p.client = "g2"}

DraggableDescriptor(d) == [id |-> d, droppableId |-> HomeOf(d)]

CriticalOf(d) ==
    [ draggable |-> DraggableDescriptor(d),
      droppable |-> [id |-> HomeOf(d), type |-> TypeOfHome(d)] ]

Criticals == {CriticalOf(d) : d \in DraggableIds}

\* DragImpact: a reorder destination, a merge (combine), or neither
Impacts ==
    { [destination |-> None, merge |-> None] }
    \cup { [destination |-> Some([droppableId |-> x]), merge |-> None] : x \in DroppableIds }
    \cup { [destination |-> None,
            merge |-> Some([combine |-> [droppableId |-> x]])] : x \in DroppableIds }

DraggableDimension(d, p) == [descriptor |-> DraggableDescriptor(d), placeholder |-> p]

\* DimensionMap whose entry for d is e (null when the entry is missing)
DimensionsWith(d, e) ==
    [ draggables |->
        [ x \in DraggableIds |->
            IF x = d THEN e
            ELSE Some(DraggableDimension(x, CHOOSE p \in PlaceholdersOf(x) : TRUE)) ] ]

EntriesOf(d) == {None} \cup {Some(DraggableDimension(d, p)) : p \in PlaceholdersOf(d)}

CompletedDrags == [critical : Criticals, impact : Impacts]

IdleState(completed) ==
    [ phase |-> "IDLE", isDragging |-> FALSE, critical |-> None, impact |-> None,
      dimensions |-> None, completed |-> completed ]

DraggingState(critical, dimensions, impact) ==
    [ phase |-> "DRAGGING", isDragging |-> TRUE, critical |-> Some(critical),
      impact |-> Some(impact), dimensions |-> Some(dimensions), completed |-> None ]

DropAnimatingState(completed, dimensions) ==
    [ phase |-> "DROP_ANIMATING", isDragging |-> FALSE, critical |-> None,
      impact |-> None, dimensions |-> Some(dimensions), completed |-> Some(completed) ]

\* a State whose phase is none of the tags the selector names
UnknownState(completed) ==
    [ phase |-> "UNKNOWN", isDragging |-> FALSE, critical |-> None, impact |-> None,
      dimensions |-> None, completed |-> completed ]

IdleStates == {IdleState(None)} \cup {IdleState(Some(c)) : c \in CompletedDrags}

DraggingStates ==
    UNION { { DraggingState(CriticalOf(d), DimensionsWith(d, e), i) :
                e \in EntriesOf(d), i \in Impacts } : d \in DraggableIds }

DropAnimatingStates ==
    UNION { { DropAnimatingState([critical |-> CriticalOf(d), impact |-> i],
                                 DimensionsWith(d, e)) :
                e \in EntriesOf(d), i \in Impacts } : d \in DraggableIds }

UnknownStates ==
    {UnknownState(None)}
    \cup {UnknownState(Some([critical |-> CriticalOf(d),
                             impact |-> [destination |-> None, merge |-> None]])) :
            d \in DraggableIds}

States == IdleStates \cup DraggingStates \cup DropAnimatingStates \cup UnknownStates

OwnPropsSet == [droppableId : DroppableIds, type : TypeIds]

----------------------------------------------------------------------------
(* The module's constants and helpers *)

idle ==
    [ ref |-> 1,
      isDraggingOver |-> FALSE,
      draggingOverWith |-> None,
      draggingFromThisWith |-> None,
      placeholder |-> None,
      shouldAnimatePlaceholder |-> TRUE ]

idleWithoutAnimation ==
    [idle EXCEPT !.ref = 2, !.shouldAnimatePlaceholder = FALSE]

\* mutant: the type check always passes
isMatchingType_always(type, critical) == TRUE

isMatchingType(type, critical) == type = critical.droppable.type

\* Boolean(v) of a nullable string: null and the empty string are falsy
Boolean(v) == IsSome(v) /\ Get(v) # ""

\* impact.destination, else the merge's combine target, else null
whatIsDraggedOver(impact) ==
    IF IsSome(impact.destination) THEN Some(Get(impact.destination).droppableId)
    ELSE IF IsSome(impact.merge) THEN Some(Get(impact.merge).combine.droppableId)
    ELSE None

shouldCollapseHomeAfterDrag(id, completed) ==
    LET wasOver == whatIsDraggedOver(completed.impact) IN
    IF wasOver = Some(id) /\ IsSome(completed.impact.merge) THEN TRUE
    ELSE IF Boolean(wasOver) /\ wasOver # Some(id) THEN TRUE
    ELSE FALSE

\* dimensions.draggables[critical.draggable.id]: undefined when there is no entry
getDraggable(critical, dimensions) == dimensions.draggables[critical.draggable.id]

----------------------------------------------------------------------------
(* memoizeOne and the two memoized constructors *)

\* a === b for two Placeholder objects
isSameObject(a, b) == a.ref = b.ref

\* mutant: the comparison looks at the first argument only
areOverInputsEqual_firstOnly(newArgs, lastArgs) == newArgs[1] = lastArgs[1]

\* memoizeOne's argument comparison, argument by argument with ===
areOverInputsEqual(newArgs, lastArgs) ==
    /\ newArgs[1] = lastArgs[1]
    /\ newArgs[2] = lastArgs[2]
    /\ isSameObject(newArgs[3], lastArgs[3])
    /\ newArgs[4] = lastArgs[4]

areHomeInputsEqual(newArgs, lastArgs) ==
    /\ newArgs[1] = lastArgs[1]
    /\ isSameObject(newArgs[2], lastArgs[2])

\* one call of a memoized function: slot is its cache (null before the first
\* call), hit says whether the arguments equal the cached ones, built is the
\* object the wrapped function would create
\* mutant: the cache keeps the first pair it was given
memoizeOne_keepsFirst(slot, h, hit, newArgs, built) ==
    IF IsSome(slot) /\ hit
    THEN [slot |-> slot, heap |-> h, value |-> Get(slot).lastResult]
    ELSE [ slot |-> IF IsSome(slot) THEN slot
                    ELSE Some([lastArgs |-> newArgs, lastResult |-> built]),
           heap |-> h + 1,
           value |-> built ]

memoizeOne(slot, h, hit, newArgs, built) ==
    IF IsSome(slot) /\ hit
    THEN [slot |-> slot, heap |-> h, value |-> Get(slot).lastResult]
    ELSE [ slot |-> Some([lastArgs |-> newArgs, lastResult |-> built]),
           heap |-> h + 1,
           value |-> built ]

\* mutant: the constructor is not wrapped in memoizeOne
getDraggingOverMapProps_unmemoized(slot, h, draggingOverWith, draggingFromThisWith, placeholder, shouldAnimatePlaceholder) ==
    LET newArgs == <<draggingOverWith, draggingFromThisWith,
                     placeholder, shouldAnimatePlaceholder>>
    IN memoizeOne(slot, h, FALSE, newArgs,
                  [ ref |-> h + 1,
                    isDraggingOver |-> TRUE,
                    draggingFromThisWith |-> draggingFromThisWith,
                    draggingOverWith |-> Some(draggingOverWith),
                    placeholder |-> Some(placeholder),
                    shouldAnimatePlaceholder |-> shouldAnimatePlaceholder ])

\* mutant: the record's two draggable fields are filled from each other's argument
getDraggingOverMapProps_swapped(slot, h, draggingOverWith, draggingFromThisWith, placeholder, shouldAnimatePlaceholder) ==
    LET newArgs == <<draggingOverWith, draggingFromThisWith,
                     placeholder, shouldAnimatePlaceholder>>
    IN memoizeOne(slot, h,
                  IsSome(slot) /\ areOverInputsEqual(newArgs, Get(slot).lastArgs),
                  newArgs,
                  [ ref |-> h + 1,
                    isDraggingOver |-> TRUE,
                    draggingFromThisWith |-> Some(draggingOverWith),
                    draggingOverWith |-> draggingFromThisWith,
                    placeholder |-> Some(placeholder),
                    shouldAnimatePlaceholder |-> shouldAnimatePlaceholder ])

getDraggingOverMapProps(slot, h, draggingOverWith, draggingFromThisWith, placeholder, shouldAnimatePlaceholder) ==
    LET newArgs == <<draggingOverWith, draggingFromThisWith,
                     placeholder, shouldAnimatePlaceholder>>
    IN memoizeOne(slot, h,
                  IsSome(slot) /\ areOverInputsEqual(newArgs, Get(slot).lastArgs),
                  newArgs,
                  [ ref |-> h + 1,
                    isDraggingOver |-> TRUE,
                    draggingFromThisWith |-> draggingFromThisWith,
                    draggingOverWith |-> Some(draggingOverWith),
                    placeholder |-> Some(placeholder),
                    shouldAnimatePlaceholder |-> shouldAnimatePlaceholder ])

\* mutant: the home record carries no placeholder
getHomeNotDraggedOverMapProps_noPlaceholder(slot, h, draggingFromThisWith, placeholder) ==
    LET newArgs == <<draggingFromThisWith, placeholder>>
    IN memoizeOne(slot, h,
                  IsSome(slot) /\ areHomeInputsEqual(newArgs, Get(slot).lastArgs),
                  newArgs,
                  [ ref |-> h + 1,
                    isDraggingOver |-> FALSE,
                    draggingFromThisWith |-> Some(draggingFromThisWith),
                    draggingOverWith |-> None,
                    placeholder |-> None,
                    shouldAnimatePlaceholder |-> FALSE ])

\* mutant: the home record names the draggable in draggingOverWith as well
getHomeNotDraggedOverMapProps_overWith(slot, h, draggingFromThisWith, placeholder) ==
    LET newArgs == <<draggingFromThisWith, placeholder>>
    IN memoizeOne(slot, h,
                  IsSome(slot) /\ areHomeInputsEqual(newArgs, Get(slot).lastArgs),
                  newArgs,
                  [ ref |-> h + 1,
                    isDraggingOver |-> FALSE,
                    draggingFromThisWith |-> Some(draggingFromThisWith),
                    draggingOverWith |-> Some(draggingFromThisWith),
                    placeholder |-> Some(placeholder),
                    shouldAnimatePlaceholder |-> FALSE ])

getHomeNotDraggedOverMapProps(slot, h, draggingFromThisWith, placeholder) ==
    LET newArgs == <<draggingFromThisWith, placeholder>>
    IN memoizeOne(slot, h,
                  IsSome(slot) /\ areHomeInputsEqual(newArgs, Get(slot).lastArgs),
                  newArgs,
                  [ ref |-> h + 1,
                    isDraggingOver |-> FALSE,
                    draggingFromThisWith |-> Some(draggingFromThisWith),
                    draggingOverWith |-> None,
                    placeholder |-> Some(placeholder),
                    shouldAnimatePlaceholder |-> FALSE ])

\* the caches of a selector instance right after makeMapStateToProps()
makeMapStateToProps == [over |-> None, home |-> None]

\* mutant: the memoized constructors are created once, at module level, and
\* every selector uses them
cacheOf_shared(i) == 1

\* the memoized constructors selector i closes over: makeMapStateToProps creates
\* a pair of them on every call, so every selector has its own
cacheOf(i) == i

----------------------------------------------------------------------------
(* getMapProps and selector.  Each returns the outcome of the call:       *)
(* threw (a TypeError), the value returned, and the caches and heap after. *)

Returned(c, h, v) == [threw |-> FALSE, value |-> Some(v), cache |-> c, heap |-> h]
Threw(c, h) == [threw |-> TRUE, value |-> None, cache |-> c, heap |-> h]

\* mutant: one cache for both constructors, so a call of one evicts the other
getMapProps_sharedCache(c, h, id, draggable, impact) ==
    LET isOver == whatIsDraggedOver(impact) = Some(id) IN
    IF ~IsSome(draggable)
    THEN \* draggable.descriptor of undefined
         Threw(c, h)
    ELSE
    LET d == Get(draggable)
        isHome == d.descriptor.droppableId = id
    IN
    IF isOver
    THEN LET draggingFromThisWith == IF isHome THEN Some(d.descriptor.id) ELSE None
             shouldAnimatePlaceholder == ~isHome
             m == getDraggingOverMapProps(c.over, h, d.descriptor.id,
                      draggingFromThisWith, d.placeholder, shouldAnimatePlaceholder)
         IN Returned([c EXCEPT !.over = m.slot, !.home = None], m.heap, m.value)
    ELSE IF ~isHome
    THEN Returned(c, h, idle)
    ELSE LET m == getHomeNotDraggedOverMapProps(c.home, h, d.descriptor.id, d.placeholder)
         IN Returned([c EXCEPT !.home = m.slot, !.over = None], m.heap, m.value)

\* mutant: a missing catalog entry is answered with idle
getMapProps_defaulted(c, h, id, draggable, impact) ==
    LET isOver == whatIsDraggedOver(impact) = Some(id) IN
    IF ~IsSome(draggable)
    THEN Returned(c, h, idle)
    ELSE
    LET d == Get(draggable)
        isHome == d.descriptor.droppableId = id
    IN
    IF isOver
    THEN LET draggingFromThisWith == IF isHome THEN Some(d.descriptor.id) ELSE None
             shouldAnimatePlaceholder == ~isHome
             m == getDraggingOverMapProps(c.over, h, d.descriptor.id,
                      draggingFromThisWith, d.placeholder, shouldAnimatePlaceholder)
         IN Returned([c EXCEPT !.over = m.slot], m.heap, m.value)
    ELSE IF ~isHome
    THEN Returned(c, h, idle)
    ELSE LET m == getHomeNotDraggedOverMapProps(c.home, h, d.descriptor.id, d.placeholder)
         IN Returned([c EXCEPT !.home = m.slot], m.heap, m.value)

\* mutant: the placeholder animates in the home list rather than in a foreign one
getMapProps_animateInverted(c, h, id, draggable, impact) ==
    LET isOver == whatIsDraggedOver(impact) = Some(id) IN
    IF ~IsSome(draggable)
    THEN \* draggable.descriptor of undefined
         Threw(c, h)
    ELSE
    LET d == Get(draggable)
        isHome == d.descriptor.droppableId = id
    IN
    IF isOver
    THEN LET draggingFromThisWith == IF isHome THEN Some(d.descriptor.id) ELSE None
             shouldAnimatePlaceholder == isHome
             m == getDraggingOverMapProps(c.over, h, d.descriptor.id,
                      draggingFromThisWith, d.placeholder, shouldAnimatePlaceholder)
         IN Returned([c EXCEPT !.over = m.slot], m.heap, m.value)
    ELSE IF ~isHome
    THEN Returned(c, h, idle)
    ELSE LET m == getHomeNotDraggedOverMapProps(c.home, h, d.descriptor.id, d.placeholder)
         IN Returned([c EXCEPT !.home = m.slot], m.heap, m.value)

\* mutant: answering idle clears the two caches
getMapProps_resetOnIdle(c, h, id, draggable, impact) ==
    LET isOver == whatIsDraggedOver(impact) = Some(id) IN
    IF ~IsSome(draggable)
    THEN \* draggable.descriptor of undefined
         Threw(c, h)
    ELSE
    LET d == Get(draggable)
        isHome == d.descriptor.droppableId = id
    IN
    IF isOver
    THEN LET draggingFromThisWith == IF isHome THEN Some(d.descriptor.id) ELSE None
             shouldAnimatePlaceholder == ~isHome
             m == getDraggingOverMapProps(c.over, h, d.descriptor.id,
                      draggingFromThisWith, d.placeholder, shouldAnimatePlaceholder)
         IN Returned([c EXCEPT !.over = m.slot], m.heap, m.value)
    ELSE IF ~isHome
    THEN Returned(makeMapStateToProps, h, idle)
    ELSE LET m == getHomeNotDraggedOverMapProps(c.home, h, d.descriptor.id, d.placeholder)
         IN Returned([c EXCEPT !.home = m.slot], m.heap, m.value)

\* mutant: every list counts as dragged over while the drag has a target
getMapProps_overAny(c, h, id, draggable, impact) ==
    LET isOver == IsSome(whatIsDraggedOver(impact)) IN
    IF ~IsSome(draggable)
    THEN \* draggable.descriptor of undefined
         Threw(c, h)
    ELSE
    LET d == Get(draggable)
        isHome == d.descriptor.droppableId = id
    IN
    IF isOver
    THEN LET draggingFromThisWith == IF isHome THEN Some(d.descriptor.id) ELSE None
             shouldAnimatePlaceholder == ~isHome
             m == getDraggingOverMapProps(c.over, h, d.descriptor.id,
                      draggingFromThisWith, d.placeholder, shouldAnimatePlaceholder)
         IN Returned([c EXCEPT !.over = m.slot], m.heap, m.value)
    ELSE IF ~isHome
    THEN Returned(c, h, idle)
    ELSE LET m == getHomeNotDraggedOverMapProps(c.home, h, d.descriptor.id, d.placeholder)
         IN Returned([c EXCEPT !.home = m.slot], m.heap, m.value)

\* mutant: a list that is not dragged over gets idle, the home list included
getMapProps_homeIdle(c, h, id, draggable, impact) ==
    LET isOver == whatIsDraggedOver(impact) = Some(id) IN
    IF ~IsSome(draggable)
    THEN \* draggable.descriptor of undefined
         Threw(c, h)
    ELSE
    LET d == Get(draggable)
        isHome == d.descriptor.droppableId = id
    IN
    IF isOver
    THEN LET draggingFromThisWith == IF isHome THEN Some(d.descriptor.id) ELSE None
             shouldAnimatePlaceholder == ~isHome
             m == getDraggingOverMapProps(c.over, h, d.descriptor.id,
                      draggingFromThisWith, d.placeholder, shouldAnimatePlaceholder)
         IN Returned([c EXCEPT !.over = m.slot], m.heap, m.value)
    ELSE Returned(c, h, idle)

getMapProps(c, h, id, draggable, impact) ==
    LET isOver == whatIsDraggedOver(impact) = Some(id) IN
    IF ~IsSome(draggable)
    THEN \* draggable.descriptor of undefined
         Threw(c, h)
    ELSE
    LET d == Get(draggable)
        isHome == d.descriptor.droppableId = id
    IN
    IF isOver
    THEN LET draggingFromThisWith == IF isHome THEN Some(d.descriptor.id) ELSE None
             shouldAnimatePlaceholder == ~isHome
             m == getDraggingOverMapProps(c.over, h, d.descriptor.id,
                      draggingFromThisWith, d.placeholder, shouldAnimatePlaceholder)
         IN Returned([c EXCEPT !.over = m.slot], m.heap, m.value)
    ELSE IF ~isHome
    THEN Returned(c, h, idle)
    ELSE LET m == getHomeNotDraggedOverMapProps(c.home, h, d.descriptor.id, d.placeholder)
         IN Returned([c EXCEPT !.home = m.slot], m.heap, m.value)

\* mutant: the two results of the collapse decision are swapped
selector_swapped(c, h, s, props) ==
    LET id == props.droppableId
        type == props.type
    IN
    IF s.isDragging
    THEN LET critical == Get(s.critical) IN
         IF ~isMatchingType(type, critical) THEN Returned(c, h, idle)
         ELSE getMapProps(c, h, id, getDraggable(critical, Get(s.dimensions)),
                          Get(s.impact))
    ELSE IF s.phase = "DROP_ANIMATING"
    THEN LET completed == Get(s.completed) IN
         IF ~isMatchingType(type, completed.critical) THEN Returned(c, h, idle)
         ELSE getMapProps(c, h, id,
                          getDraggable(completed.critical, Get(s.dimensions)),
                          completed.impact)
    ELSE IF s.phase = "IDLE" /\ IsSome(s.completed)
    THEN LET completed == Get(s.completed) IN
         IF ~isMatchingType(type, completed.critical) THEN Returned(c, h, idle)
         ELSE LET isHome == completed.critical.droppable.id = id IN
              IF ~isHome THEN Returned(c, h, idle)
              ELSE IF shouldCollapseHomeAfterDrag(id, completed)
                   THEN Returned(c, h, idleWithoutAnimation)
                   ELSE Returned(c, h, idle)
    ELSE Returned(c, h, idle)

\* mutant: the completed branch does not test the phase
selector_anyPhase(c, h, s, props) ==
    LET id == props.droppableId
        type == props.type
    IN
    IF s.isDragging
    THEN LET critical == Get(s.critical) IN
         IF ~isMatchingType(type, critical) THEN Returned(c, h, idle)
         ELSE getMapProps(c, h, id, getDraggable(critical, Get(s.dimensions)),
                          Get(s.impact))
    ELSE IF s.phase = "DROP_ANIMATING"
    THEN LET completed == Get(s.completed) IN
         IF ~isMatchingType(type, completed.critical) THEN Returned(c, h, idle)
         ELSE getMapProps(c, h, id,
                          getDraggable(completed.critical, Get(s.dimensions)),
                          completed.impact)
    ELSE IF IsSome(s.completed)
    THEN LET completed == Get(s.completed) IN
         IF ~isMatchingType(type, completed.critical) THEN Returned(c, h, idle)
         ELSE LET isHome == completed.critical.droppable.id = id IN
              IF ~isHome THEN Returned(c, h, idle)
              ELSE IF shouldCollapseHomeAfterDrag(id, completed)
                   THEN Returned(c, h, idle)
                   ELSE Returned(c, h, idleWithoutAnimation)
    ELSE Returned(c, h, idle)

\* mutant: the IDLE branch does not test state.completed, and reads completed.critical of null
selector_idleUnchecked(c, h, s, props) ==
    LET id == props.droppableId
        type == props.type
    IN
    IF s.isDragging
    THEN LET critical == Get(s.critical) IN
         IF ~isMatchingType(type, critical) THEN Returned(c, h, idle)
         ELSE getMapProps(c, h, id, getDraggable(critical, Get(s.dimensions)),
                          Get(s.impact))
    ELSE IF s.phase = "DROP_ANIMATING"
    THEN LET completed == Get(s.completed) IN
         IF ~isMatchingType(type, completed.critical) THEN Returned(c, h, idle)
         ELSE getMapProps(c, h, id,
                          getDraggable(completed.critical, Get(s.dimensions)),
                          completed.impact)
    ELSE IF s.phase = "IDLE"
    THEN IF ~IsSome(s.completed) THEN Threw(c, h) ELSE
         LET completed == Get(s.completed) IN
         IF ~isMatchingType(type, completed.critical) THEN Returned(c, h, idle)
         ELSE LET isHome == completed.critical.droppable.id = id IN
              IF ~isHome THEN Returned(c, h, idle)
              ELSE IF shouldCollapseHomeAfterDrag(id, completed)
                   THEN Returned(c, h, idle)
                   ELSE Returned(c, h, idleWithoutAnimation)
    ELSE Returned(c, h, idle)

\* mutant: after the drop the collapse decision is taken for every list, not the home list only
selector_homeUnchecked(c, h, s, props) ==
    LET id == props.droppableId
        type == props.type
    IN
    IF s.isDragging
    THEN LET critical == Get(s.critical) IN
         IF ~isMatchingType(type, critical) THEN Returned(c, h, idle)
         ELSE getMapProps(c, h, id, getDraggable(critical, Get(s.dimensions)),
                          Get(s.impact))
    ELSE IF s.phase = "DROP_ANIMATING"
    THEN LET completed == Get(s.completed) IN
         IF ~isMatchingType(type, completed.critical) THEN Returned(c, h, idle)
         ELSE getMapProps(c, h, id,
                          getDraggable(completed.critical, Get(s.dimensions)),
                          completed.impact)
    ELSE IF s.phase = "IDLE" /\ IsSome(s.completed)
    THEN LET completed == Get(s.completed) IN
         IF ~isMatchingType(type, completed.critical) THEN Returned(c, h, idle)
         ELSE IF shouldCollapseHomeAfterDrag(id, completed)
              THEN Returned(c, h, idle)
              ELSE Returned(c, h, idleWithoutAnimation)
    ELSE Returned(c, h, idle)

\* mutant: the DROP_ANIMATING branch does not test the type
selector_dropUnchecked(c, h, s, props) ==
    LET id == props.droppableId
        type == props.type
    IN
    IF s.isDragging
    THEN LET critical == Get(s.critical) IN
         IF ~isMatchingType(type, critical) THEN Returned(c, h, idle)
         ELSE getMapProps(c, h, id, getDraggable(critical, Get(s.dimensions)),
                          Get(s.impact))
    ELSE IF s.phase = "DROP_ANIMATING"
    THEN LET completed == Get(s.completed) IN
         getMapProps(c, h, id,
                     getDraggable(completed.critical, Get(s.dimensions)),
                     completed.impact)
    ELSE IF s.phase = "IDLE" /\ IsSome(s.completed)
    THEN LET completed == Get(s.completed) IN
         IF ~isMatchingType(type, completed.critical) THEN Returned(c, h, idle)
         ELSE LET isHome == completed.critical.droppable.id = id IN
              IF ~isHome THEN Returned(c, h, idle)
              ELSE IF shouldCollapseHomeAfterDrag(id, completed)
                   THEN Returned(c, h, idle)
                   ELSE Returned(c, h, idleWithoutAnimation)
    ELSE Returned(c, h, idle)

selector(c, h, s, props) ==
    LET id == props.droppableId
        type == props.type
    IN
    IF s.isDragging
    THEN LET critical == Get(s.critical) IN
         IF ~isMatchingType(type, critical) THEN Returned(c, h, idle)
         ELSE getMapProps(c, h, id, getDraggable(critical, Get(s.dimensions)),
                          Get(s.impact))
    ELSE IF s.phase = "DROP_ANIMATING"
    THEN LET completed == Get(s.completed) IN
         IF ~isMatchingType(type, completed.critical) THEN Returned(c, h, idle)
         ELSE getMapProps(c, h, id,
                          getDraggable(completed.critical, Get(s.dimensions)),
                          completed.impact)
    ELSE IF s.phase = "IDLE" /\ IsSome(s.completed)
    THEN LET completed == Get(s.completed) IN
         IF ~isMatchingType(type, completed.critical) THEN Returned(c, h, idle)
         ELSE LET isHome == completed.critical.droppable.id = id IN
              IF ~isHome THEN Returned(c, h, idle)
              ELSE IF shouldCollapseHomeAfterDrag(id, completed)
                   THEN Returned(c, h, idle)
                   ELSE Returned(c, h, idleWithoutAnimation)
    ELSE Returned(c, h, idle)

----------------------------------------------------------------------------
(* Structural equality of two States: equal field by field, Placeholder    *)
(* objects compared by their contents rather than by identity.             *)

Contents(s) ==
    IF IsSome(s.dimensions)
    THEN [s EXCEPT !.dimensions =
            Some([draggables |->
                    [ x \in DraggableIds |->
                        LET e == Get(s.dimensions).draggables[x] IN
                        IF IsSome(e)
                        THEN Some([Get(e) EXCEPT !.placeholder.ref = "any"])
                        ELSE None ]])]
    ELSE s

----------------------------------------------------------------------------
(* The state machine *)

NoCall == [called |-> FALSE]

\* the phases the selector's branches are written for
KnownPhases == {"IDLE", "DRAGGING", "DROP_ANIMATING"}

\* the State shows a drag: its critical and impact are those the selector reads
IsCarrying(s) ==
    \/ s.isDragging
    \/ s.phase = "DROP_ANIMATING"
    \/ s.phase = "IDLE" /\ IsSome(s.completed)

CriticalIn(s) == IF s.isDragging THEN Get(s.critical) ELSE Get(s.completed).critical
ImpactIn(s) == IF s.isDragging THEN Get(s.impact) ELSE Get(s.completed).impact

\* stage 1: DRAGGING over the home list with the entry in the catalog;
\* stage 2: DROP_ANIMATING reached from stage 1 with the same critical and impact;
\* stage 3: IDLE reached from stage 2 with that completed drag attached.
NextStage(old, s, st) ==
    IF /\ s.phase = "DRAGGING"
       /\ IsSome(getDraggable(Get(s.critical), Get(s.dimensions)))
       /\ whatIsDraggedOver(Get(s.impact)) = Some(Get(s.critical).droppable.id)
    THEN 1
    ELSE IF /\ st = 1
            /\ s.phase = "DROP_ANIMATING"
            /\ Get(s.completed) = [critical |-> Get(old.critical), impact |-> Get(old.impact)]
            /\ s.dimensions = old.dimensions
    THEN 2
    ELSE IF /\ st = 2
            /\ s.phase = "IDLE"
            /\ s.completed = old.completed
    THEN 3
    ELSE 0

Init ==
    /\ state = IdleState(None)
    /\ ownProps \in [Instances -> OwnPropsSet]
    /\ cache = [i \in Instances |-> makeMapStateToProps]
    /\ heap = 2
    /\ ret = NoCall
    /\ shown = [i \in Instances |-> None]
    /\ stage = 0

\* the store publishes another State
StoreUpdate(s) ==
    /\ s # state
    /\ state' = s
    /\ stage' = NextStage(state, s, stage)
    /\ ret' = IF ret.called /\ Contents(s) = Contents(state)
              THEN [ret EXCEPT !.sameState = FALSE]
              ELSE NoCall
    /\ shown' = [i \in DOMAIN shown |-> None]
    /\ UNCHANGED <<ownProps, cache, heap>>

\* connect calls the selector of instance i with the current State and the
\* props of its Droppable.  ret.before keeps what the call before returned,
\* when that call was given this State (same) or one structurally identical,
\* and ret.before.earlier what the call before that one returned.
Select(i) ==
    LET r == selector(cache[cacheOf(i)], heap, state, ownProps[i]) IN
    /\ r.heap <= MaxHeap
    /\ cache' = [cache EXCEPT ![cacheOf(i)] = r.cache]
    /\ heap' = r.heap
    /\ ret' = [ called |-> TRUE, inst |-> i,
                threw |-> r.threw, value |-> r.value, sameState |-> TRUE,
                before |-> IF ret.called /\ ret.inst = i /\ ~ret.threw
                           THEN Some([value |-> Get(ret.value), same |-> ret.sameState,
                                      earlier |-> IF IsSome(ret.before)
                                                  THEN Some(Get(ret.before).value)
                                                  ELSE None])
                           ELSE None ]
    /\ shown' = [shown EXCEPT ![i] = r.value]
    /\ UNCHANGED <<state, ownProps, stage>>

Next ==
    \/ \E s \in States : StoreUpdate(s)
    \/ \E i \in DOMAIN ownProps : Select(i)

Spec == Init /\ [][Next]_vars

----------------------------------------------------------------------------
(* Two mounted Droppables with distinct ids, each with its own selector,   *)
(* during the drags of one draggable whose catalog entry is present.       *)

PairInstances == {1, 2}

\* the States two mounted Droppables are compared under: a drag of d1 in
\* progress, or the IDLE phase before and after it
PairStates ==
    {s \in States :
        /\ s.phase \in {"IDLE", "DRAGGING"}
        /\ IsCarrying(s) => CriticalIn(s).draggable.id = "d1"
        /\ IsSome(s.dimensions) => IsSome(getDraggable(CriticalIn(s), Get(s.dimensions)))}

\* the two Droppables are of the draggable's type: its home list A and the
\* list B; which of the two is instance 1 makes no difference
PairOwnProps ==
    { [i \in PairInstances |->
          [droppableId |-> IF i = 1 THEN "A" ELSE "B", type |-> "DEFAULT"]] }

InitPair ==
    /\ state = IdleState(None)
    /\ ownProps \in PairOwnProps
    /\ cache = [i \in PairInstances |-> makeMapStateToProps]
    /\ heap = 2
    /\ ret = NoCall
    /\ shown = [i \in PairInstances |-> None]
    /\ stage = 0

NextPair ==
    \/ \E s \in PairStates : StoreUpdate(s)
    \/ \E i \in DOMAIN ownProps : Select(i)

SpecPair == InitPair /\ [][NextPair]_vars

----------------------------------------------------------------------------
(* What the latest call shows *)

\* the latest call was given the State the store holds now
Current == ret.called /\ ret.sameState
\* the latest call returned a MapProps record
HasValue == ret.called /\ ~ret.threw
Value == Get(ret.value)
Props == ownProps[ret.inst]

\* the State is a live drag: dragging or drop animating
IsLive(s) == s.isDragging \/ s.phase = "DROP_ANIMATING"
\* the catalog entry of the dragged item (null when missing)
EntryIn(s) == Get(s.dimensions).draggables[CriticalIn(s).draggable.id]
TargetIn(s) == whatIsDraggedOver(ImpactIn(s))
TypeMatches(s, props) == props.type = CriticalIn(s).droppable.type
IsOrigin(s, props) == CriticalIn(s).droppable.id = props.droppableId

\* the call takes the dragging-over branch / the home branch of getMapProps
OverCall(s, props) ==
    /\ IsLive(s) /\ TypeMatches(s, props) /\ IsSome(EntryIn(s))
    /\ TargetIn(s) = Some(props.droppableId)
HomeCall(s, props) ==
    /\ IsLive(s) /\ TypeMatches(s, props) /\ IsSome(EntryIn(s))
    /\ TargetIn(s) # Some(props.droppableId)
    /\ Get(EntryIn(s)).descriptor.droppableId = props.droppableId

----------------------------------------------------------------------------
(* C1 *)

\* C1 (as stated): two calls in a row on one instance with structurally
\* identical inputs, the placeholder being the same object or another object
\* with the same contents, return the same object.
C1_StructurallyIdenticalSameReference ==
    (HasValue /\ IsSome(ret.before)) => Value.ref = Get(ret.before).value.ref

\* C1 (amended): two calls in a row on one instance with the same inputs, the
\* placeholder being the same object, return the same object.
C1_IdenticalInputsSameReference ==
    (ret.called /\ IsSome(ret.before) /\ Get(ret.before).same)
        => HasValue /\ Value.ref = Get(ret.before).value.ref

\* a memoized record was returned twice in a row
C1_Witness ==
    /\ HasValue /\ IsSome(ret.before) /\ Get(ret.before).same
    /\ Value.isDraggingOver
    /\ Value.ref = Get(ret.before).value.ref

----------------------------------------------------------------------------
(* C2 *)

\* C2: along DRAGGING(target = origin) -> DROP_ANIMATING(same critical and
\* impact) -> IDLE(completed, no collapse) the origin region of matching type
\* gets the dragging-over record with draggingFromThisWith set and no
\* animation, then a record of that shape, then idleWithoutAnimation, which
\* is not idle.
C2_SessionSequence ==
    (Current /\ stage # 0 /\ TypeMatches(state, Props) /\ IsOrigin(state, Props)) =>
        LET d == CriticalIn(state).draggable.id IN
        /\ stage \in {1, 2} =>
              /\ HasValue
              /\ Value.isDraggingOver
              /\ Value.draggingOverWith = Some(d)
              /\ Value.draggingFromThisWith = Some(d)
              /\ Value.placeholder = Some(Get(EntryIn(state)).placeholder)
              /\ ~Value.shouldAnimatePlaceholder
        /\ (stage = 3 /\ ~IsSome(ImpactIn(state).merge)) =>
              /\ HasValue
              /\ Value = idleWithoutAnimation
              /\ Value.ref # idle.ref

\* the sequence was run to its end with a call on the origin region at the
\* end, after the dragging-over record had been built
C2_Witness ==
    /\ Current /\ stage = 3 /\ TypeMatches(state, Props) /\ IsOrigin(state, Props)
    /\ ~IsSome(ImpactIn(state).merge)
    /\ IsSome(cache[ret.inst].over)
    /\ Value = idleWithoutAnimation

----------------------------------------------------------------------------
(* C3 *)

\* C3 (as stated): placeholder is non-null iff isDraggingOver or the region is
\* the origin of the current or just-completed drag, IDLE with a completed
\* record included.
C3_PlaceholderIffOverOrOrigin ==
    (Current /\ HasValue) =>
        (IsSome(Value.placeholder) <=>
            (Value.isDraggingOver \/ (IsCarrying(state) /\ IsOrigin(state, Props))))

\* C3 (amended): placeholder is non-null iff the State is dragging or drop
\* animating, the region's type matches, and isDraggingOver or the region is
\* the origin; in IDLE and for a region of another type it is null.
C3_PlaceholderIffLiveOverOrOrigin ==
    (Current /\ HasValue) =>
        (IsSome(Value.placeholder) <=>
            /\ IsLive(state)
            /\ TypeMatches(state, Props)
            /\ (Value.isDraggingOver \/ IsOrigin(state, Props)))

\* the origin region, not dragged over, shows the placeholder
C3_Witness ==
    /\ Current /\ HasValue /\ IsLive(state)
    /\ ~Value.isDraggingOver /\ IsOrigin(state, Props)
    /\ IsSome(Value.placeholder)

----------------------------------------------------------------------------
(* C4 *)

\* C4: in every record returned, draggingOverWith is non-null iff
\* isDraggingOver.
C4_OverWithIffDraggingOver ==
    HasValue => (IsSome(Value.draggingOverWith) <=> Value.isDraggingOver)

\* a home record: a draggable is named, and nothing is dragged over
C4_Witness ==
    /\ HasValue
    /\ IsSome(Value.draggingFromThisWith)
    /\ ~Value.isDraggingOver /\ ~IsSome(Value.draggingOverWith)

----------------------------------------------------------------------------
(* C5 *)

\* C5 (as stated): with a phase outside the recognized tags, and not dragging,
\* the call aborts.
C5_UnknownPhaseAborts ==
    (Current /\ ~state.isDragging /\ state.phase \notin KnownPhases) => ret.threw

\* C5 (amended): with a phase outside the recognized tags, and not dragging,
\* the call returns idle, with or without a completed record.
C5_UnknownPhaseIsIdle ==
    (Current /\ ~state.isDragging /\ state.phase \notin KnownPhases)
        => HasValue /\ Value = idle

\* an unknown phase with a completed drag of the calling region
C5_Witness ==
    /\ Current /\ ~state.isDragging /\ state.phase \notin KnownPhases
    /\ IsSome(state.completed)
    /\ TypeMatches(state, Props) /\ IsOrigin(state, Props)
    /\ Value = idle

----------------------------------------------------------------------------
(* C6 *)

\* the record getDraggingOverMapProps / getHomeNotDraggedOverMapProps builds
\* for the State and region, whatever its ref
IsOverRecord(v, s, props) ==
    LET e == Get(EntryIn(s))
        isHome == e.descriptor.droppableId = props.droppableId
    IN /\ v.isDraggingOver
       /\ v.draggingOverWith = Some(e.descriptor.id)
       /\ v.draggingFromThisWith = (IF isHome THEN Some(e.descriptor.id) ELSE None)
       /\ v.placeholder = Some(e.placeholder)
       /\ v.shouldAnimatePlaceholder = ~isHome

IsHomeRecord(v, s, props) ==
    LET e == Get(EntryIn(s))
    IN /\ ~v.isDraggingOver
       /\ v.draggingOverWith = None
       /\ v.draggingFromThisWith = Some(e.descriptor.id)
       /\ v.placeholder = Some(e.placeholder)
       /\ ~v.shouldAnimatePlaceholder

\* C6: a call on the dragging-over branch returns the record of its inputs and
\* leaves the home slot unchanged, a call on the home branch returns the
\* record of its inputs and leaves the dragging-over slot unchanged, and a
\* branch called with the inputs of its previous call returns the object it
\* returned then.
C6_BranchesDoNotInterfere ==
    [][ (state' = state /\ ret'.called) =>
          LET i == ret'.inst
              p == ownProps[i]
              v == Get(ret'.value)
          IN /\ OverCall(state, p) =>
                  /\ ~ret'.threw
                  /\ IsOverRecord(v, state, p)
                  /\ cache'[i].home = cache[i].home
                  /\ (IsSome(cache[i].over)
                        /\ IsOverRecord(Get(cache[i].over).lastResult, state, p))
                       => v.ref = Get(cache[i].over).lastResult.ref
             /\ HomeCall(state, p) =>
                  /\ ~ret'.threw
                  /\ IsHomeRecord(v, state, p)
                  /\ cache'[i].over = cache[i].over
                  /\ (IsSome(cache[i].home)
                        /\ IsHomeRecord(Get(cache[i].home).lastResult, state, p))
                       => v.ref = Get(cache[i].home).lastResult.ref
      ]_vars

\* the region was the target, then the un-hovered origin, then the target
\* again with the first inputs, and got the first record back
C6_Witness ==
    /\ Current /\ HasValue /\ OverCall(state, Props)
    /\ IsSome(cache[ret.inst].over) /\ IsSome(cache[ret.inst].home)
    /\ Get(cache[ret.inst].over).lastResult.ref < Get(cache[ret.inst].home).lastResult.ref
    /\ Value = Get(cache[ret.inst].over).lastResult

----------------------------------------------------------------------------
(* C7 *)

\* C7 (as stated): dragging or drop animating with no catalog entry for the
\* critical draggable, the call aborts.
C7_MissingEntryAborts ==
    (Current /\ IsLive(state) /\ ~IsSome(EntryIn(state))) => ret.threw

\* C7 (amended): dragging or drop animating with no catalog entry for the
\* critical draggable, the call aborts for a region of matching type, and
\* returns idle, the catalog unread, for a region of another type.
C7_MissingEntryAbortsOnMatchingType ==
    (Current /\ IsLive(state) /\ ~IsSome(EntryIn(state))) =>
        IF TypeMatches(state, Props) THEN ret.threw ELSE HasValue /\ Value = idle

\* a call aborted, after records had been built
C7_Witness ==
    /\ Current /\ IsLive(state) /\ ~IsSome(EntryIn(state))
    /\ TypeMatches(state, Props)
    /\ ret.threw
    /\ IsSome(cache[ret.inst].over)

----------------------------------------------------------------------------
(* C8 *)

\* the collapse decision as the claim states it
ClaimedCollapse(id, completed) ==
    LET target == whatIsDraggedOver(completed.impact) IN
    \/ target = Some(id) /\ IsSome(completed.impact.merge)
    \/ IsSome(target) /\ target # Some(id)

\* C8: shouldCollapseHomeAfterDrag(regionId, completed) is true exactly when
\* the target is regionId and the impact has a merge, or the target is
\* non-null and differs from regionId.
C8_CollapseDecision ==
    (state.phase = "IDLE" /\ IsSome(state.completed)) =>
        \A i \in DOMAIN ownProps :
            shouldCollapseHomeAfterDrag(ownProps[i].droppableId, Get(state.completed))
                = ClaimedCollapse(ownProps[i].droppableId, Get(state.completed))

----------------------------------------------------------------------------
(* C9 *)

\* C9: not dragging, not drop animating, no completed record: the call returns
\* the idle constant, whatever the region and the calls before.
C9_IdleWithoutDrag ==
    (Current /\ ~state.isDragging /\ state.phase # "DROP_ANIMATING"
             /\ ~IsSome(state.completed))
        => HasValue /\ Value = idle

\* idle was returned by an instance whose two caches are filled
C9_Witness ==
    /\ Current /\ ~state.isDragging /\ state.phase = "IDLE" /\ ~IsSome(state.completed)
    /\ IsSome(cache[ret.inst].over) /\ IsSome(cache[ret.inst].home)
    /\ Value = idle

----------------------------------------------------------------------------
(* C10 *)

\* C10: dragging, drop animating or IDLE with a completed record, a region
\* whose type differs from the critical droppable's type gets idle.
C10_OtherTypeIsIdle ==
    (Current /\ IsCarrying(state) /\ ~TypeMatches(state, Props))
        => HasValue /\ Value = idle

\* a region of another type whose id is the origin and the target, the catalog
\* entry missing
C10_Witness ==
    /\ Current /\ state.isDragging /\ ~TypeMatches(state, Props)
    /\ IsOrigin(state, Props)
    /\ TargetIn(state) = Some(Props.droppableId)
    /\ ~IsSome(EntryIn(state))
    /\ Value = idle

----------------------------------------------------------------------------
(* C11, C12, C13: the three records of a drag in progress *)

\* the id of the dragged item
Dragged(s) == CriticalIn(s).draggable.id
\* the call is made during a drag, for a list of the drag's type, the dragged
\* item being in the catalog
DraggingCall ==
    /\ Current /\ state.isDragging
    /\ TypeMatches(state, Props) /\ IsSome(EntryIn(state))
IsTarget(s, props) == TargetIn(s) = Some(props.droppableId)
\* the list is the one the dragged item's descriptor names as its home
IsHomeOfEntry(s, props) == Get(EntryIn(s)).descriptor.droppableId = props.droppableId

\* C11: dragging, matching type, the region is the target and not the dragged
\* item's origin: isDraggingOver, draggingOverWith is the dragged id,
\* draggingFromThisWith is null, placeholder is the dragged item's placeholder
\* and shouldAnimatePlaceholder is true.
C11_TargetNotOrigin ==
    (DraggingCall /\ IsTarget(state, Props) /\ ~IsHomeOfEntry(state, Props)) =>
        /\ HasValue
        /\ Value.isDraggingOver
        /\ Value.draggingOverWith = Some(Dragged(state))
        /\ Value.draggingFromThisWith = None
        /\ Value.placeholder = Some(Get(EntryIn(state)).placeholder)
        /\ Value.shouldAnimatePlaceholder

\* a foreign list under the dragged item got a record built by this call
C11_Witness ==
    /\ DraggingCall /\ IsTarget(state, Props) /\ ~IsHomeOfEntry(state, Props)
    /\ HasValue /\ Value.isDraggingOver /\ Value.shouldAnimatePlaceholder
    /\ Value.ref = heap

\* C12: dragging, matching type, the region is the target and the dragged
\* item's origin: isDraggingOver, draggingFromThisWith and draggingOverWith are
\* both the dragged id, and shouldAnimatePlaceholder is false.
C12_TargetAndOrigin ==
    (DraggingCall /\ IsTarget(state, Props) /\ IsHomeOfEntry(state, Props)) =>
        /\ HasValue
        /\ Value.isDraggingOver
        /\ Value.draggingFromThisWith = Some(Dragged(state))
        /\ Value.draggingOverWith = Some(Dragged(state))
        /\ ~Value.shouldAnimatePlaceholder

\* the home list under its own item, by way of a merge
C12_Witness ==
    /\ DraggingCall /\ IsTarget(state, Props) /\ IsHomeOfEntry(state, Props)
    /\ IsSome(ImpactIn(state).merge)
    /\ HasValue /\ Value.isDraggingOver /\ ~Value.shouldAnimatePlaceholder
    /\ Value.draggingFromThisWith = Value.draggingOverWith

\* C13: dragging, matching type, the region is the dragged item's origin and
\* not the target: isDraggingOver is false, draggingOverWith is null,
\* draggingFromThisWith is the dragged id, placeholder is non-null and
\* shouldAnimatePlaceholder is false.
C13_OriginNotTarget ==
    (DraggingCall /\ ~IsTarget(state, Props) /\ IsHomeOfEntry(state, Props)) =>
        /\ HasValue
        /\ ~Value.isDraggingOver
        /\ Value.draggingOverWith = None
        /\ Value.draggingFromThisWith = Some(Dragged(state))
        /\ IsSome(Value.placeholder)
        /\ ~Value.shouldAnimatePlaceholder

\* the home list while its item is over another list
C13_Witness ==
    /\ DraggingCall /\ ~IsTarget(state, Props) /\ IsHomeOfEntry(state, Props)
    /\ IsSome(TargetIn(state))
    /\ HasValue /\ Value.draggingFromThisWith = Some(Dragged(state))
    /\ Value.placeholder = Some(Get(EntryIn(state)).placeholder)

----------------------------------------------------------------------------
(* C14 *)

\* the State is IDLE with the completed drag attached
IsSettled(s) == s.phase = "IDLE" /\ IsSome(s.completed)

\* C14: IDLE with a completed record and matching type: a region that is not
\* the origin gets idle; the origin gets idle when the collapse decision is
\* true and idleWithoutAnimation when it is false.  idleWithoutAnimation is
\* returned in no other phase and for no other region.
C14_SettledOrigin ==
    /\ (Current /\ IsSettled(state) /\ TypeMatches(state, Props)) =>
          /\ HasValue
          /\ Value =
                IF ~IsOrigin(state, Props) THEN idle
                ELSE IF shouldCollapseHomeAfterDrag(Props.droppableId, Get(state.completed))
                     THEN idle
                     ELSE idleWithoutAnimation
    /\ (Current /\ HasValue /\ Value.ref = idleWithoutAnimation.ref) =>
          /\ IsSettled(state)
          /\ TypeMatches(state, Props)
          /\ IsOrigin(state, Props)
          /\ ~shouldCollapseHomeAfterDrag(Props.droppableId, Get(state.completed))

\* the origin after a merge into itself: the decision is true and idle is returned
C14_Witness ==
    /\ Current /\ IsSettled(state) /\ TypeMatches(state, Props)
    /\ IsOrigin(state, Props)
    /\ shouldCollapseHomeAfterDrag(Props.droppableId, Get(state.completed))
    /\ TargetIn(state) = Some(Props.droppableId)
    /\ HasValue /\ Value = idle

----------------------------------------------------------------------------
(* C15 *)

\* the DRAGGING State whose live critical and impact are those of the
\* completed record of the DROP_ANIMATING State s, over the same catalog
DraggingTwin(s) ==
    DraggingState(Get(s.completed).critical, Get(s.dimensions), Get(s.completed).impact)

\* C15: a call with a DROP_ANIMATING State has the outcome of the call with
\* the DRAGGING State of the same critical, impact and catalog made at the same
\* point: the same record or the same abort, the same object when the
\* instance holds the record for these inputs, and the same caches afterwards.
C15_DropAnimatingAsDragging ==
    [][ (state' = state /\ ret'.called /\ state.phase = "DROP_ANIMATING") =>
          LET i == ret'.inst
              r == selector(cache[cacheOf(i)], heap, DraggingTwin(state), ownProps[i])
          IN /\ ret'.threw = r.threw
             /\ ret'.value = r.value
             /\ cache'[cacheOf(i)] = r.cache
             /\ heap' = r.heap ]_vars

\* after DRAGGING -> DROP_ANIMATING with the same critical and impact, the
\* call returned the dragging-over record built during the drag, another
\* record having been built since
C15_Witness ==
    /\ stage = 2 /\ Current /\ HasValue
    /\ state.phase = "DROP_ANIMATING"
    /\ Value.isDraggingOver
    /\ Value.ref < heap

----------------------------------------------------------------------------
(* C16 *)

\* C16: a call on one selector leaves the cached pairs of every other selector
\* unchanged, and every other selector, called again with the inputs of its
\* previous call, still returns the object it returned then.
C16_SeparateCaches ==
    [][ (state' = state /\ ret'.called) =>
          \A j \in DOMAIN ownProps \ {ret'.inst} :
              /\ cache'[cacheOf(j)] = cache[cacheOf(j)]
              /\ IsSome(shown[j]) =>
                    selector(cache'[cacheOf(j)], heap', state, ownProps[j]).value
                        = shown[j] ]_vars

\* selector 1 built a record while selector 2 held, and had returned for this
\* State, a record of its own
C16_Witness ==
    /\ HasValue /\ ret.inst = 1
    /\ IsSome(cache[1].home)
    /\ Value.ref = heap /\ Value.ref = Get(cache[1].home).lastResult.ref
    /\ 2 \in DOMAIN shown
    /\ IsSome(shown[2]) /\ IsSome(cache[2].over)
    /\ Get(shown[2]).ref = Get(cache[2].over).lastResult.ref

----------------------------------------------------------------------------
(* C17 *)

\* the fields of a record, its identity left out
Fields(v) == [v EXCEPT !.ref = 0]

\* three calls in a row on one instance: the first and the third with inputs
\* X, the second with other inputs Y, each returning a memoized record
CalledXYX ==
    /\ HasValue /\ IsSome(ret.before) /\ IsSome(Get(ret.before).earlier)
    /\ Value.ref \notin {idle.ref, idleWithoutAnimation.ref}
    /\ Fields(Get(Get(ret.before).earlier)) = Fields(Value)
    /\ Fields(Get(ret.before).value) # Fields(Value)

\* C17: a cache holds the latest pair only: after calls with X and then with
\* other inputs Y, the call with X again builds a new object; it returns
\* neither the object first produced for X nor the one produced for Y.
C17_LatestPairOnly ==
    CalledXYX =>
        /\ Value.ref # Get(Get(ret.before).earlier).ref
        /\ Value.ref # Get(ret.before).value.ref
        /\ Value.ref = heap

\* the dragging-over constructor was called with X, Y and X again
C17_Witness ==
    /\ CalledXYX
    /\ Value.isDraggingOver
    /\ Value.ref > Get(ret.before).value.ref
    /\ Get(ret.before).value.ref > Get(Get(ret.before).earlier).ref

----------------------------------------------------------------------------
(* C18 *)

\* what a selector without memoization computes: every constructor call builds
Unmemoized(s, props) == selector(makeMapStateToProps, heap, s, props)

\* C18: whatever calls were made before, the call aborts exactly when the
\* unmemoized selector aborts on the same State and region, and the fields of
\* the record it returns equal those the unmemoized selector computes.
C18_MemoizationKeepsFields ==
    (Current /\ ret.called) =>
        LET u == Unmemoized(state, Props) IN
        /\ ret.threw = u.threw
        /\ ~ret.threw => Fields(Value) = Fields(Get(u.value))

\* a home record was returned from the cache after a later record was built
C18_Witness ==
    /\ Current /\ HasValue
    /\ IsSome(Value.placeholder) /\ ~Value.isDraggingOver
    /\ Value.ref < heap
    /\ Fields(Value) = Fields(Get(Unmemoized(state, Props).value))

----------------------------------------------------------------------------
(* C19 *)

\* the record is one of the two module constants
IsConstant(v) == v.ref \in {idle.ref, idleWithoutAnimation.ref}

\* C19: a call that returns idle or idleWithoutAnimation leaves both caches of
\* its instance as they were and creates no object, so whatever inputs come
\* next, the instance returns the object it would have returned before that
\* call.
C19_ConstantsLeaveCaches ==
    [][ (state' = state /\ ret'.called /\ ~ret'.threw /\ IsConstant(Get(ret'.value))) =>
          LET i == ret'.inst IN
          /\ cache'[cacheOf(i)] = cache[cacheOf(i)]
          /\ heap' = heap
          /\ \A s \in States :
                selector(cache'[cacheOf(i)], heap', s, ownProps[i])
                    = selector(cache[cacheOf(i)], heap, s, ownProps[i]) ]_vars

\* during a drag idle was returned twice in a row by an instance that holds a
\* dragging-over record
C19_Witness ==
    /\ Current /\ HasValue /\ state.isDragging /\ TypeMatches(state, Props)
    /\ Value = idle
    /\ IsSome(ret.before) /\ Get(ret.before).value = idle
    /\ IsSome(cache[cacheOf(ret.inst)].over)

----------------------------------------------------------------------------
(* C20 *)

\* C20: of the records two Droppables with distinct ids, each with its own
\* selector, are given for one State, at most one has isDraggingOver, at most
\* one has a draggingFromThisWith, and in IDLE with a completed record at most
\* one is idleWithoutAnimation.
C20_AtMostOneRegion ==
    \A i, j \in DOMAIN shown :
        (/\ i # j /\ ownProps[i].droppableId # ownProps[j].droppableId
         /\ IsSome(shown[i]) /\ IsSome(shown[j])) =>
            LET a == Get(shown[i])
                b == Get(shown[j])
            IN /\ ~(a.isDraggingOver /\ b.isDraggingOver)
               /\ ~(IsSome(a.draggingFromThisWith) /\ IsSome(b.draggingFromThisWith))
               /\ IsSettled(state) =>
                     ~(a = idleWithoutAnimation /\ b = idleWithoutAnimation)

\* for one State the home list shows the placeholder and the other list is
\* dragged over
C20_Witness ==
    \E i, j \in DOMAIN shown :
        /\ i # j /\ IsSome(shown[i]) /\ IsSome(shown[j])
        /\ IsSome(Get(shown[i]).draggingFromThisWith) /\ ~Get(shown[i]).isDraggingOver
        /\ Get(shown[j]).isDraggingOver /\ Get(shown[j]).draggingFromThisWith = None

====
